---- MODULE Spec2Model ----
(***************************************************************************)
(* A model of the minus pager: the text formatter (src/src/lib.rs), the    *)
(* Pager configuration object (src/src/lib.rs), the scroll window written  *)
(* by write_lines (observed through src/src/utils/tests.rs) and the event  *)
(* dispatcher handle_event (src/src/core/ev_handler.rs).                   *)
(*                                                                         *)
(* A Rust String is modelled as the sequence of its UTF-8 bytes, because   *)
(* String::len and str::split_at count bytes.  A byte is one of the tokens *)
(* of Bytes: two ASCII letters, the newline, and the two bytes of one      *)
(* two-byte character (lead byte, continuation byte).                      *)
(***************************************************************************)
EXTENDS Integers, Sequences, FiniteSets, TLC

VARIABLES
    fmt_text,      \* formatter: the text handed to split_at_width
    fmt_cols,      \* formatter: the column count handed to split_at_width
    fmt_pc,        \* formatter: "call", "returned" or "panicked"
    fmt_lines,     \* formatter: the Vec<String> returned
    wl_n,          \* write_lines: the number of lines of the text given
    wl_rows,       \* write_lines: rows
    wl_ln,         \* write_lines: the LineNumbers mode
    wl_req,        \* write_lines: upper_mark as the caller passed it in
    wl_um,         \* write_lines: upper_mark, the in/out parameter
    wl_out,        \* write_lines: what was written to the sink, line by line
    wl_pc,         \* write_lines: "call" or "done"
    pager,         \* the Pager of lib.rs
    pg_panicked,   \* Pager: a method call panicked
    pg_shared,     \* Pager: finish() has put it behind the PagerMutex
    pg_mutex,      \* Pager: the task that holds the PagerMutex, or "free"
    pg_raw,        \* history: the text last set, then every text pushed
    pg_hist,       \* history: the kinds of call made while running
    pg_last,       \* history: the last call made
    pg_calls,      \* history: the number of calls made
    p,             \* the PagerState handle_event works on
    is_exitted,    \* handle_event's is_exitted flag
    effects,       \* what the exit path did, in order
    chan,          \* the event channel, oldest message first
    main_pc,       \* main loop: "recv", "lock", "fetch", "searching", "failed", "panicked"
    query,         \* main loop: what fetch_input returned
    ilock,         \* event_thread_running: "free", "main" or "reader"
    reader_pc,     \* input-reading task: "idle" or "reading"
    sent,          \* history: messages published, per producer
    taken,         \* history: messages received by the main loop, per producer
    registered,    \* history: callbacks of the AddExitCallback events dispatched
    last_es        \* history: strategy of the last SetExitStrategy dispatched

fmt_vars == <<fmt_text, fmt_cols, fmt_pc, fmt_lines>>
wl_vars == <<wl_n, wl_rows, wl_ln, wl_req, wl_um, wl_out, wl_pc>>
ev_vars == <<p, is_exitted, effects, chan, main_pc, query, ilock, reader_pc,
             sent, taken, registered, last_es>>
pg_vars == <<pager, pg_panicked, pg_shared, pg_mutex, pg_raw, pg_hist, pg_last, pg_calls>>

(***************************************************************************)
(* Bounds                                                                  *)
(***************************************************************************)
MaxTextLen == 4
MaxCols == 3
MaxDocLines == 4
MaxRows == 3
MaxMark == 5
MaxPagerCalls == 4
MaxRawLen == 4
MaxEvents == 4
MaxLiveEvents == 3
MaxSeqEvents == 4
MaxScroll == 3

(***************************************************************************)
(* Strings                                                                 *)
(***************************************************************************)
NL == "\n"
LeadByte == "C3"
ContByte == "A9"
Bytes == {"a", "b", NL, LeadByte, ContByte}

\* A sequence of bytes is a Rust String only when it is valid UTF-8: every
\* lead byte is followed by its continuation byte and conversely.
ValidUtf8(s) ==
    \A i \in 1..Len(s) :
        /\ (s[i] = LeadByte => (i < Len(s) /\ s[i + 1] = ContByte))
        /\ (s[i] = ContByte => (i > 1 /\ s[i - 1] = LeadByte))

Strings(n) == UNION {{s \in [1..k -> Bytes] : ValidUtf8(s)} : k \in 0..n}

\* str::is_char_boundary: index i (a byte offset) does not fall inside a
\* multi-byte character.
is_char_boundary(s, i) ==
    \/ i = 0
    \/ i = Len(s)
    \/ (i < Len(s) /\ s[i + 1] # ContByte)

RECURSIVE Concat(_)
Concat(ss) == IF ss = <<>> THEN <<>> ELSE Head(ss) \o Concat(Tail(ss))

\* The position of the first newline of s, or 0.
FirstNL(s) ==
    IF \E i \in 1..Len(s) : s[i] = NL
    THEN CHOOSE i \in 1..Len(s) : s[i] = NL /\ \A j \in 1..(i - 1) : s[j] # NL
    ELSE 0

\* str::lines(): the pieces between newlines; a final empty piece is not
\* yielded, so "a\n" has one line and "" has none.
RECURSIVE lines_of(_)
lines_of(s) ==
    IF s = <<>> THEN <<>>
    ELSE IF FirstNL(s) = 0 THEN <<s>>
    ELSE <<SubSeq(s, 1, FirstNL(s) - 1)>> \o lines_of(SubSeq(s, FirstNL(s) + 1, Len(s)))

(***************************************************************************)
(* The formatter, src/src/lib.rs.  A result is [panic, lines]: split_at    *)
(* panics when the index is not a character boundary, and the division     *)
(* panics when cols = 0.                                                   *)
(***************************************************************************)
Panicked == [panic |-> TRUE, lines |-> <<>>]
Returned(ls) == [panic |-> FALSE, lines |-> ls]

\* let breaks = (line.len() / cols).saturating_add(1);
breaks(line, cols) == (Len(line) \div cols) + 1

\* for _ in 1..breaks { split_at(cols); push(line_1); line = line_2 }
\* lines.push(line)
RECURSIVE split_loop(_, _, _)
split_loop(line, cols, n) ==
    IF n = 0 THEN Returned(<<line>>)
    ELSE IF cols > Len(line) \/ ~is_char_boundary(line, cols) THEN Panicked
    ELSE LET rest == split_loop(SubSeq(line, cols + 1, Len(line)), cols, n - 1)
         IN  IF rest.panic THEN Panicked
             ELSE Returned(<<SubSeq(line, 1, cols)>> \o rest.lines)

split_line_at_width(line, cols) ==
    IF cols = 0 THEN Panicked
    ELSE split_loop(line, cols, breaks(line, cols) - 1)

\* for l in text.lines() { lines.append(&mut split_line_at_width(l, cols)) }
RECURSIVE split_lines(_, _)
split_lines(ls, cols) ==
    IF ls = <<>> THEN Returned(<<>>)
    ELSE LET first == split_line_at_width(Head(ls), cols)
             rest == split_lines(Tail(ls), cols)
         IN  IF first.panic \/ rest.panic THEN Panicked
             ELSE Returned(first.lines \o rest.lines)

split_at_width(text, cols) == split_lines(lines_of(text), cols)

(***************************************************************************)
(* write_lines.  Its body is not in the source tree; utils/tests.rs calls  *)
(* it and asserts what it writes.  The rule below is the one the design    *)
(* states (clamp, then draw); ObservedRuns are the runs tests.rs asserts,  *)
(* and on the inputs of a test write_lines does what the test asserts.     *)
(* The text has wl_n lines; line i (0-based) is written as the record      *)
(* [cr, number, width, line, nl]: "\r", the number i + 1 right-aligned in  *)
(* width characters and ". " (number = 0: no prefix), the content of line  *)
(* i, "\n".                                                                *)
(***************************************************************************)
LineNumbers == {"Enabled", "Disabled", "AlwaysOn", "AlwaysOff"}

numbered(ln) == ln \in {"Enabled", "AlwaysOn"}

digits(k) == IF k < 10 THEN 1 ELSE IF k < 100 THEN 2 ELSE 3

\* A line written with its number in as many characters as the number has.
written_unpadded(i, n, ln) ==
    [cr |-> TRUE,
     number |-> IF numbered(ln) THEN i + 1 ELSE 0,
     width |-> IF numbered(ln) THEN digits(i + 1) ELSE 0,
     line |-> i,
     nl |-> TRUE]

written(i, n, ln) ==
    [cr |-> TRUE,
     number |-> IF numbered(ln) THEN i + 1 ELSE 0,
     width |-> IF numbered(ln) THEN digits(n) ELSE 0,
     line |-> i,
     nl |-> TRUE]

\* Mutant: the clamp forgets the text that fits the screen (n <= rows).
clamp_upper_mark_no_reset(n, rows, um) ==
    IF n > rows /\ um > n - rows THEN n - rows ELSE um

\* A clamp that comes back one line at a time.
clamp_upper_mark_by_one(n, rows, um) ==
    IF n <= rows THEN 0
    ELSE IF um > n - rows THEN um - 1 ELSE um

\* if num_lines <= rows { upper_mark = 0 } else clamp to [0, num_lines - rows]
clamp_upper_mark(n, rows, um) ==
    IF n <= rows THEN 0
    ELSE IF um > n - rows THEN n - rows ELSE um

\* emit min(rows, num_lines - upper_mark) lines starting at upper_mark
drawn_count(n, rows, um) == IF rows <= n - um THEN rows ELSE n - um

write_lines_rule(n, rows, um, ln) ==
    LET um2 == clamp_upper_mark(n, rows, um)
    IN  [upper_mark |-> um2,
         out |-> [k \in 1..drawn_count(n, rows, um2) |-> written(um2 + k - 1, n, ln)]]

\* The runs of write_lines that utils/tests.rs asserts: the text's line
\* count, rows, the upper_mark passed in, the mode; the upper_mark left, the
\* first line written (0-based) and the number of lines written.
ObservedRuns ==
    { [n |-> 2, rows |-> 10, um |-> 0, ln |-> "AlwaysOff", um_out |-> 0, first |-> 0, count |-> 2],
      [n |-> 2, rows |-> 10, um |-> 1, ln |-> "Disabled", um_out |-> 0, first |-> 0, count |-> 2],
      [n |-> 4, rows |-> 3, um |-> 0, ln |-> "Disabled", um_out |-> 0, first |-> 0, count |-> 3],
      [n |-> 4, rows |-> 3, um |-> 1, ln |-> "AlwaysOff", um_out |-> 1, first |-> 1, count |-> 3],
      [n |-> 4, rows |-> 3, um |-> 2, ln |-> "Disabled", um_out |-> 1, first |-> 1, count |-> 3],
      [n |-> 2, rows |-> 10, um |-> 0, ln |-> "Enabled", um_out |-> 0, first |-> 0, count |-> 2],
      [n |-> 2, rows |-> 10, um |-> 1, ln |-> "AlwaysOn", um_out |-> 0, first |-> 0, count |-> 2],
      [n |-> 4, rows |-> 3, um |-> 0, ln |-> "Enabled", um_out |-> 0, first |-> 0, count |-> 3],
      [n |-> 4, rows |-> 3, um |-> 1, ln |-> "AlwaysOn", um_out |-> 1, first |-> 1, count |-> 3],
      [n |-> 4, rows |-> 3, um |-> 2, ln |-> "Enabled", um_out |-> 1, first |-> 1, count |-> 3],
      [n |-> 110, rows |-> 10, um |-> 95, ln |-> "AlwaysOn", um_out |-> 95, first |-> 95, count |-> 9] }

RunInput(t) == [n |-> t.n, rows |-> t.rows, um |-> t.um, ln |-> t.ln]

Observed(n, rows, um, ln) ==
    {t \in ObservedRuns : RunInput(t) = [n |-> n, rows |-> rows, um |-> um, ln |-> ln]}

write_lines(n, rows, um, ln) ==
    IF Observed(n, rows, um, ln) = {} THEN write_lines_rule(n, rows, um, ln)
    ELSE LET t == CHOOSE t \in Observed(n, rows, um, ln) : TRUE
         IN  [upper_mark |-> t.um_out,
              out |-> [k \in 1..t.count |-> written(t.first + k - 1, n, ln)]]

(***************************************************************************)
(* Specification SpecRender: one call of write_lines on any text of at     *)
(* most MaxDocLines lines, any rows <= MaxRows, any upper_mark <= MaxMark  *)
(* and any mode, and on the inputs of the tests.                           *)
(***************************************************************************)
RenderInputs ==
    [n : 0..MaxDocLines, rows : 0..MaxRows, um : 0..MaxMark, ln : LineNumbers]
        \cup {RunInput(t) : t \in ObservedRuns}

WlIdle ==
    /\ wl_n = 0
    /\ wl_rows = 0
    /\ wl_ln = "Disabled"
    /\ wl_req = 0
    /\ wl_um = 0
    /\ wl_out = <<>>
    /\ wl_pc = "idle"

InitRender ==
    /\ \E i \in RenderInputs :
          /\ wl_n = i.n
          /\ wl_rows = i.rows
          /\ wl_ln = i.ln
          /\ wl_req = i.um
          /\ wl_um = i.um
    /\ wl_out = <<>>
    /\ wl_pc = "call"

WriteLines ==
    /\ wl_pc = "call"
    /\ wl_um' = write_lines(wl_n, wl_rows, wl_um, wl_ln).upper_mark
    /\ wl_out' = write_lines(wl_n, wl_rows, wl_um, wl_ln).out
    /\ wl_pc' = "done"
    /\ UNCHANGED <<wl_n, wl_rows, wl_ln, wl_req, fmt_vars, pg_vars, ev_vars>>

(***************************************************************************)
(* The Pager of src/src/lib.rs.  lines holds the wrapped lines; before the *)
(* pager runs the text is buffered in unwraped_text and wrapped by         *)
(* prepare().  finish() puts the Pager in an Arc<Mutex>: from then on the  *)
(* host and the pager's own task each lock it and call its methods.  The   *)
(* search feature's fields stay at their initial values here (search_term  *)
(* is empty, so get_lines() joins lines).  A panic inside a method (the    *)
(* formatter's) ends the calling task and is recorded in pg_panicked.       *)
(***************************************************************************)
Prompts == {"minus", "p1"}

PagerTexts == {<<"a">>, <<"a", "b">>, <<"a", "b", "a">>, <<"a", NL>>, <<LeadByte, ContByte>>}

Tasks == {"host", "main"}

\* Pager::new()
new_pager ==
    [lines |-> <<>>,
     line_numbers |-> "Disabled",
     upper_mark |-> 0,
     prompt |-> "minus",
     exit_strategy |-> "ProcessQuit",
     running |-> FALSE,
     unwraped_text |-> <<>>,
     cols |-> 1,
     rows |-> 1]

\* Vec<String>::join("\n")
RECURSIVE join(_)
join(ls) ==
    IF ls = <<>> THEN <<>>
    ELSE IF Len(ls) = 1 THEN Head(ls)
    ELSE Head(ls) \o <<NL>> \o join(Tail(ls))

get_lines(pg) == join(pg.lines)

set_text(pg, text) ==
    IF ~pg.running THEN [pg EXCEPT !.unwraped_text = text]
    ELSE [pg EXCEPT !.lines = split_at_width(text, pg.cols).lines]

set_text_panics(pg, text) == pg.running /\ split_at_width(text, pg.cols).panic

push_str(pg, text) ==
    IF ~pg.running THEN [pg EXCEPT !.unwraped_text = pg.unwraped_text \o text]
    ELSE [pg EXCEPT !.lines = pg.lines \o split_at_width(text, pg.cols).lines]

push_str_panics(pg, text) == pg.running /\ split_at_width(text, pg.cols).panic

set_prompt(pg, t) == [pg EXCEPT !.prompt = t]

\* prepare(), with (cols, rows) the size the terminal reports
prepare(pg, cols, rows) ==
    [pg EXCEPT !.cols = cols, !.rows = rows, !.running = TRUE,
               !.lines = split_at_width(pg.unwraped_text, cols).lines]

prepare_panics(pg, cols, rows) ==
    pg.running \/ split_at_width(pg.unwraped_text, cols).panic

readjust_wraps(pg) ==
    [pg EXCEPT !.lines = split_at_width(get_lines(pg), pg.cols).lines]

readjust_wraps_panics(pg) == split_at_width(get_lines(pg), pg.cols).panic

\* The pager's task on a resize to (c, r): the new size is stored and the
\* text is re-wrapped.
resize(pg, c, r) == readjust_wraps([pg EXCEPT !.cols = c, !.rows = r])

resize_panics(pg, c, r) == readjust_wraps_panics([pg EXCEPT !.cols = c, !.rows = r])

Alive == ~pg_panicked

\* A task may call the Pager's methods when it owns it: the host while it is
\* still building it, and after finish() the task that holds the mutex.
Owns(task) ==
    \/ ~pg_shared /\ task = "host"
    \/ pg_shared /\ pg_mutex = task

Call(kind, pg2, panics) ==
    /\ pg_calls < MaxPagerCalls
    /\ pager' = IF panics THEN pager ELSE pg2
    /\ pg_panicked' = panics
    /\ pg_last' = kind
    /\ pg_calls' = pg_calls + 1
    /\ pg_hist' = IF pager.running THEN pg_hist \cup {kind} ELSE pg_hist

HostSetText ==
    /\ Alive /\ Owns("host")
    /\ \E t \in PagerTexts :
          /\ Call("set_text", set_text(pager, t), set_text_panics(pager, t))
          /\ pg_raw' = t
    /\ UNCHANGED <<pg_shared, pg_mutex, fmt_vars, wl_vars, ev_vars>>

HostPushStr ==
    /\ Alive /\ Owns("host")
    /\ \E t \in PagerTexts :
          /\ Len(pg_raw) + Len(t) <= MaxRawLen
          /\ Call("push_str", push_str(pager, t), push_str_panics(pager, t))
          /\ pg_raw' = pg_raw \o t
    /\ UNCHANGED <<pg_shared, pg_mutex, fmt_vars, wl_vars, ev_vars>>

HostSetPrompt ==
    /\ Alive /\ Owns("host")
    /\ \E t \in Prompts :
          /\ t # pager.prompt
          /\ Call("set_prompt", set_prompt(pager, t), FALSE)
    /\ UNCHANGED <<pg_raw, pg_shared, pg_mutex, fmt_vars, wl_vars, ev_vars>>

\* finish(): Arc::new(Mutex::new(self))
Finish ==
    /\ Alive /\ ~pg_shared
    /\ pg_shared' = TRUE
    /\ UNCHANGED <<pager, pg_panicked, pg_mutex, pg_raw, pg_hist, pg_last, pg_calls, fmt_vars, wl_vars, ev_vars>>

Lock(task) ==
    /\ Alive /\ pg_shared /\ pg_mutex = "free"
    /\ pg_mutex' = task
    /\ UNCHANGED <<pager, pg_panicked, pg_shared, pg_raw, pg_hist, pg_last, pg_calls, fmt_vars, wl_vars, ev_vars>>

Unlock(task) ==
    /\ pg_shared /\ pg_mutex = task
    /\ pg_mutex' = "free"
    /\ UNCHANGED <<pager, pg_panicked, pg_shared, pg_raw, pg_hist, pg_last, pg_calls, fmt_vars, wl_vars, ev_vars>>

MainPrepare ==
    /\ Alive /\ Owns("main") /\ ~pager.running
    /\ \E c \in 1..MaxCols, r \in 1..MaxRows :
          Call("prepare", prepare(pager, c, r), prepare_panics(pager, c, r))
    /\ UNCHANGED <<pg_raw, pg_shared, pg_mutex, fmt_vars, wl_vars, ev_vars>>

MainResize ==
    /\ Alive /\ Owns("main") /\ pager.running
    /\ \E c \in 1..MaxCols, r \in 1..MaxRows :
          Call("resize", resize(pager, c, r), resize_panics(pager, c, r))
    /\ UNCHANGED <<pg_raw, pg_shared, pg_mutex, fmt_vars, wl_vars, ev_vars>>

PgIdle ==
    /\ pager = new_pager
    /\ pg_panicked = FALSE
    /\ pg_shared = FALSE
    /\ pg_mutex = "free"
    /\ pg_raw = <<>>
    /\ pg_hist = {}
    /\ pg_last = "new"
    /\ pg_calls = 0

NextPager ==
    \/ HostSetText
    \/ HostPushStr
    \/ HostSetPrompt
    \/ Finish
    \/ \E task \in Tasks : Lock(task)
    \/ \E task \in Tasks : Unlock(task)
    \/ MainPrepare
    \/ MainResize

(***************************************************************************)
(* PagerState and the events of src/src/core/ev_handler.rs.  An event is   *)
(* the record [type, text, a, b, s]: its variant, and its payload in the   *)
(* field of the payload's type (text: a String of bytes; a, b: numbers;    *)
(* s: a name).  Option<String> and Option<Regex> hold "None" or the value. *)
(* A search pattern is one byte; it matches the lines that contain it.     *)
(* PagerState's own methods (format_lines, append_str, format_prompt,      *)
(* exit, num_lines), search::next_match, search::fetch_input and           *)
(* term::cleanup are not in the source tree: they follow the design.       *)
(***************************************************************************)
None == "None"

Ev(type, text, a, b, s) == [type |-> type, text |-> text, a |-> a, b |-> b, s |-> s]

SetData(text) == Ev("SetData", text, 0, 0, "")
AppendData(text) == Ev("AppendData", text, 0, 0, "")
SetPrompt(t) == Ev("SetPrompt", <<>>, 0, 0, t)
SendMessage(t) == Ev("SendMessage", <<>>, 0, 0, t)
SetLineNumbers(ln) == Ev("SetLineNumbers", <<>>, 0, 0, ln)
SetExitStrategy(es) == Ev("SetExitStrategy", <<>>, 0, 0, es)
SetRunNoOverflow(v) == Ev("SetRunNoOverflow", <<>>, IF v THEN 1 ELSE 0, 0, "")
SetInputClassifier(clf) == Ev("SetInputClassifier", <<>>, 0, 0, clf)
AddExitCallback(cb) == Ev("AddExitCallback", <<>>, 0, 0, cb)
Exit == Ev("Exit", <<>>, 0, 0, "")
UpdateUpperMark(um) == Ev("UpdateUpperMark", <<>>, um, 0, "")
RestorePrompt == Ev("RestorePrompt", <<>>, 0, 0, "")
UpdateTermArea(c, r) == Ev("UpdateTermArea", <<>>, c, r, "")
UpdateLineNumber(l) == Ev("UpdateLineNumber", <<>>, 0, 0, l)
Search(m) == Ev("Search", <<>>, 0, 0, m)
NextMatch == Ev("NextMatch", <<>>, 0, 0, "")
PrevMatch == Ev("PrevMatch", <<>>, 0, 0, "")
Other == Ev("Other", <<>>, 0, 0, "")

\* PagerState::new(), on a terminal of 2 columns and 2 rows
new_pager_state ==
    [lines |-> <<>>,
     formatted_lines |-> <<>>,
     line_numbers |-> "Disabled",
     prompt |-> "minus",
     displayed_prompt |-> "minus",
     message |-> None,
     exit_strategy |-> "ProcessQuit",
     run_no_overflow |-> FALSE,
     input_classifier |-> "DefaultInputClassifier",
     exit_callbacks |-> <<>>,
     upper_mark |-> 0,
     rows |-> 2,
     cols |-> 2,
     search_term |-> None,
     search_mode |-> "Unknown",
     search_idx |-> <<>>,
     search_mark |-> 0]

\* A negation that swaps the two sticky modes as well.
Not_swaps_always(ln) ==
    CASE ln = "Enabled" -> "Disabled"
      [] ln = "Disabled" -> "Enabled"
      [] ln = "AlwaysOn" -> "AlwaysOff"
      [] OTHER -> "AlwaysOn"

\* impl Not for LineNumbers
Not(ln) ==
    CASE ln = "Enabled" -> "Disabled"
      [] ln = "Disabled" -> "Enabled"
      [] OTHER -> ln

is_match(term, line) == \E i \in 1..Len(line) : line[i] = term

\* A match index that counts the lines from 1.
RECURSIVE matching_from_one(_, _, _)
matching_from_one(term, ls, i) ==
    IF i > Len(ls) THEN <<>>
    ELSE (IF is_match(term, ls[i]) THEN <<i>> ELSE <<>>) \o matching_from_one(term, ls, i + 1)

\* The 0-based indices of the lines that match, ascending.
RECURSIVE matching(_, _, _)
matching(term, ls, i) ==
    IF i > Len(ls) THEN <<>>
    ELSE (IF is_match(term, ls[i]) THEN <<i - 1>> ELSE <<>>) \o matching(term, ls, i + 1)

num_lines(ps) == Len(ps.formatted_lines)

\* A format_lines that re-wraps the text and leaves the match index alone.
format_lines_stale_index(ps) ==
    [ps EXCEPT !.formatted_lines = split_at_width(ps.lines, ps.cols).lines]

\* format_lines(): re-wrap the raw text at cols; with a search pattern
\* present, re-derive the match index over the new lines.
format_lines(ps) ==
    LET fl == split_at_width(ps.lines, ps.cols).lines
    IN  [ps EXCEPT !.formatted_lines = fl,
                   !.search_idx = IF ps.search_term = None THEN ps.search_idx
                                  ELSE matching(ps.search_term, fl, 1)]

\* format_prompt(): the bottom bar shows the message if present, else the prompt.
format_prompt(ps) ==
    [ps EXCEPT !.displayed_prompt = IF ps.message # None THEN ps.message ELSE ps.prompt]

\* append_str(): append to the raw text, then re-wrap all of it.
append_str(ps, text) == format_lines([ps EXCEPT !.lines = ps.lines \o text])

\* search::next_match(): from the search cursor on, go to the first match at
\* or after upper_mark, if there is one.
RECURSIVE next_match(_)
next_match(ps) ==
    IF ps.search_mark >= Len(ps.search_idx) THEN ps
    ELSE IF ps.search_idx[ps.search_mark + 1] < ps.upper_mark
         THEN next_match([ps EXCEPT !.search_mark = ps.search_mark + 1])
         ELSE [ps EXCEPT !.upper_mark = ps.search_idx[ps.search_mark + 1]]

sat_sub(a, b) == IF a >= b THEN a - b ELSE 0

(***************************************************************************)
(* handle_event, arm by arm.  The Exit arm and the Search arm are kept     *)
(* apart: Exit acts on the terminal and the flag, and Search blocks on the *)
(* lock and on the terminal between its first and its last statements.     *)
(***************************************************************************)
InvalidRegexMessage == "Invalid regular expression. Press Enter"

\* The patterns regex::Regex::new accepts.
Patterns == {"a", "b"}

\* A RestorePrompt arm that leaves the message in place.
on_restore_prompt_keeps_message(ps) == format_prompt(ps)

\* The RestorePrompt arm.
on_restore_prompt(ps) == format_prompt([ps EXCEPT !.message = None])

\* The SetPrompt arm.
on_set_prompt(ps, t) == format_prompt([ps EXCEPT !.prompt = t])

\* The SendMessage arm.
on_send_message(ps, t) == format_prompt([ps EXCEPT !.message = t])

\* An AddExitCallback arm that puts the callback first.
on_add_exit_callback_front(ps, cb) ==
    [ps EXCEPT !.exit_callbacks = <<cb>> \o ps.exit_callbacks]

\* The AddExitCallback arm.
on_add_exit_callback(ps, cb) ==
    [ps EXCEPT !.exit_callbacks = Append(ps.exit_callbacks, cb)]

\* The NextMatch arm, search_term being present.
on_next_match(ps) ==
    next_match(
        IF /\ ps.search_mark < sat_sub(Len(ps.search_idx), 1)
           /\ ps.upper_mark + ps.rows < num_lines(ps)
        THEN [ps EXCEPT !.search_mark = ps.search_mark + 1]
        ELSE ps)

\* The PrevMatch arm, search_term being present: search_idx.iter().nth(
\* search_mark).unwrap() panics when the cursor is past the last match.
on_prev_match_panics(ps) ==
    /\ ps.search_idx # <<>>
    /\ sat_sub(ps.search_mark, 1) >= Len(ps.search_idx)

on_prev_match(ps) ==
    IF ps.search_idx = <<>> \/ on_prev_match_panics(ps) THEN ps
    ELSE LET mark == sat_sub(ps.search_mark, 1)
             y == ps.search_idx[mark + 1]
             ps1 == [ps EXCEPT !.search_mark = mark]
         IN  IF y < ps.upper_mark
             THEN format_prompt([ps1 EXCEPT !.upper_mark = y])
             ELSE ps1

\* A catch-all arm that scrolls back to the top.
on_user_input_other_scrolls_home(ps) == [ps EXCEPT !.upper_mark = 0]

\* The catch-all arm, Event::UserInput(_) => {}: it takes the intents no arm
\* before it matched.
on_user_input_other(ps) == ps

\* handle_event panics; its result then stands for no state.
handle_event_panics(ev, ps) ==
    /\ ev.type = "PrevMatch"
    /\ ps.search_term # None
    /\ on_prev_match_panics(ps)

handle_event(ev, ps) ==
    CASE ev.type = "SetData" ->
            format_lines([ps EXCEPT !.lines = ev.text])
      [] ev.type = "UpdateUpperMark" ->
            [ps EXCEPT !.upper_mark = ev.a]
      [] ev.type = "RestorePrompt" ->
            on_restore_prompt(ps)
      [] ev.type = "UpdateTermArea" ->
            format_lines([ps EXCEPT !.rows = ev.b, !.cols = ev.a])
      [] ev.type = "UpdateLineNumber" ->
            format_lines([ps EXCEPT !.line_numbers = ev.s])
      [] ev.type = "NextMatch" /\ ps.search_term # None ->
            on_next_match(ps)
      [] ev.type = "PrevMatch" /\ ps.search_term # None ->
            on_prev_match(ps)
      [] ev.type = "AppendData" ->
            append_str(ps, ev.text)
      [] ev.type = "SetPrompt" ->
            on_set_prompt(ps, ev.s)
      [] ev.type = "SendMessage" ->
            on_send_message(ps, ev.s)
      [] ev.type = "SetLineNumbers" ->
            format_lines([ps EXCEPT !.line_numbers = ev.s])
      [] ev.type = "SetExitStrategy" ->
            [ps EXCEPT !.exit_strategy = ev.s]
      [] ev.type = "SetRunNoOverflow" ->
            [ps EXCEPT !.run_no_overflow = (ev.a = 1)]
      [] ev.type = "SetInputClassifier" ->
            [ps EXCEPT !.input_classifier = ev.s]
      [] ev.type = "AddExitCallback" ->
            on_add_exit_callback(ps, ev.s)
      [] OTHER -> on_user_input_other(ps)

\* What handle_event leaves in *is_exitted: only the Exit arm writes it.
handle_event_is_exitted(ev, flag) == IF ev.type = "Exit" THEN TRUE ELSE flag

\* What the exit path does, in order: an effect is [kind, arg].
Effect(kind, arg) == [kind |-> kind, arg |-> arg]

\* PagerState::exit(): call the exit callbacks, first registered first.
exit(ps) == [i \in 1..Len(ps.exit_callbacks) |-> Effect("callback", ps.exit_callbacks[i])]

\* A handler that cleans up before it marks the session ended.
handle_exit_cleanup_first(ps) ==
    <<Effect("cleanup", ps.exit_strategy)>> \o exit(ps) \o <<Effect("is_exitted", "true")>>

\* The Exit arm: p.exit(); *is_exitted = true; cleanup(out, &p.exit_strategy, true)
handle_exit(ps) ==
    exit(ps) \o <<Effect("is_exitted", "true"), Effect("cleanup", ps.exit_strategy)>>

\* The Search arm up to the lock.
search_begin(ps, m) == [ps EXCEPT !.search_mode = m]

\* A Search arm without the test for the empty query: the empty regex
\* compiles.
search_finish_unguarded(ps, string) ==
    IF string \in Patterns \cup {""}
    THEN next_match(format_lines([ps EXCEPT !.search_term = string]))
    ELSE format_lines([ps EXCEPT !.message = InvalidRegexMessage])

\* The Search arm after drop(ilock), string being what fetch_input returned.
search_finish(ps, string) ==
    IF string = "" THEN ps
    ELSE IF string \in Patterns
         THEN next_match(format_lines([ps EXCEPT !.search_term = string]))
         ELSE format_lines([ps EXCEPT !.message = InvalidRegexMessage])

(***************************************************************************)
(* The tasks around handle_event: the host and the input-reading task      *)
(* publish to the channel, the main loop receives and dispatches.  A       *)
(* message is the event with its producer, its number among the producer's *)
(* messages and its number among all arrivals.                             *)
(***************************************************************************)
Producers == {"host", "reader"}

Total(f) == f["host"] + f["reader"]

Msg(src, n, t, ev) == [src |-> src, n |-> n, t |-> t, ev |-> ev]

\* A receiver that takes the newest message.
recv_newest(ch) == [msg |-> ch[Len(ch)], rest |-> SubSeq(ch, 1, Len(ch) - 1)]

\* The channel's receive: the oldest message.
recv(ch) == [msg |-> Head(ch), rest |-> Tail(ch)]

Callbacks == {"cb1", "cb2"}

ExitStrategies == {"ProcessQuit", "PagerQuit"}

\* What the host sends while the pager runs.
HostEvents ==
    {AppendData(<<"b", NL>>)}
    \cup {SetExitStrategy(es) : es \in ExitStrategies}
    \cup {AddExitCallback(cb) : cb \in Callbacks}

\* What the input classifier can make of a key or a resize, given the
\* PagerState it reads.
ReaderEvents(ps) ==
    {Exit, Other, UpdateLineNumber(Not(ps.line_numbers)), Search("Forward")}

\* What fetch_input can return: nothing, a pattern, or text that is no regex.
Queries == {""} \cup Patterns \cup {"("}

\* cleanup() with ExitStrategy::ProcessQuit ends the process.
ProcessExited ==
    \E i \in 1..Len(effects) : effects[i] = Effect("cleanup", "ProcessQuit")

PublishUpTo(max, src, ev) ==
    /\ ~ProcessExited
    /\ Total(sent) < max
    /\ sent' = [sent EXCEPT ![src] = sent[src] + 1]
    /\ chan' = Append(chan, Msg(src, sent[src] + 1, Total(sent) + 1, ev))

Publish(src, ev) == PublishUpTo(MaxEvents, src, ev)

HostPublish ==
    /\ \E ev \in HostEvents : Publish("host", ev)
    /\ UNCHANGED <<p, is_exitted, effects, main_pc, query, ilock, reader_pc,
                   taken, registered, last_es>>
    /\ UNCHANGED <<fmt_vars, wl_vars, pg_vars>>

\* The input-reading task takes the lock before it reads the terminal.
ReaderLock ==
    /\ ~ProcessExited
    /\ reader_pc = "idle"
    /\ ilock = "free"
    /\ ilock' = "reader"
    /\ reader_pc' = "reading"
    /\ UNCHANGED <<p, is_exitted, effects, chan, main_pc, query,
                   sent, taken, registered, last_es>>
    /\ UNCHANGED <<fmt_vars, wl_vars, pg_vars>>

\* It reads an input, publishes what the classifier makes of it, and lets go.
ReaderRead ==
    /\ reader_pc = "reading"
    /\ \E ev \in ReaderEvents(p) : Publish("reader", ev)
    /\ ilock' = "free"
    /\ reader_pc' = "idle"
    /\ UNCHANGED <<p, is_exitted, effects, main_pc, query,
                   taken, registered, last_es>>
    /\ UNCHANGED <<fmt_vars, wl_vars, pg_vars>>

\* No input within the poll interval.
ReaderIdle ==
    /\ ~ProcessExited
    /\ reader_pc = "reading"
    /\ ilock' = "free"
    /\ reader_pc' = "idle"
    /\ UNCHANGED <<p, is_exitted, effects, chan, main_pc, query,
                   sent, taken, registered, last_es>>
    /\ UNCHANGED <<fmt_vars, wl_vars, pg_vars>>

\* The history variables record the message handle_event is called on.
Record(msg) ==
    /\ taken' = [taken EXCEPT ![msg.src] = taken[msg.src] + 1]
    /\ registered' = IF msg.ev.type = "AddExitCallback"
                     THEN Append(registered, msg.ev.s) ELSE registered
    /\ last_es' = IF msg.ev.type = "SetExitStrategy" THEN msg.ev.s ELSE last_es

\* The main loop takes the next message.
Receive(types) ==
    /\ main_pc = "recv"
    /\ ~is_exitted
    /\ chan # <<>>
    /\ recv(chan).msg.ev.type \in types
    /\ chan' = recv(chan).rest
    /\ Record(recv(chan).msg)

\* handle_event returns, or panics and takes the main loop with it.
Handle(ev) ==
    IF handle_event_panics(ev, p)
    THEN p' = p /\ main_pc' = "panicked" /\ UNCHANGED is_exitted
    ELSE /\ p' = handle_event(ev, p)
         /\ is_exitted' = handle_event_is_exitted(ev, is_exitted)
         /\ UNCHANGED main_pc

EventTypes ==
    {"SetData", "AppendData", "SetPrompt", "SendMessage", "SetLineNumbers",
     "SetExitStrategy", "SetRunNoOverflow", "SetInputClassifier", "AddExitCallback",
     "Exit", "UpdateUpperMark", "RestorePrompt", "UpdateTermArea", "UpdateLineNumber",
     "Search", "NextMatch", "PrevMatch", "Other"}

\* handle_event on any event but Exit and Search.
MainDispatch ==
    /\ Receive(EventTypes \ {"Exit", "Search"})
    /\ Handle(recv(chan).msg.ev)
    /\ UNCHANGED <<effects, query, ilock, reader_pc, sent>>
    /\ UNCHANGED <<fmt_vars, wl_vars, pg_vars>>

\* An Exit arm that forgets *is_exitted = true.
MainExitFlagUnset ==
    /\ Receive({"Exit"})
    /\ effects' = effects \o handle_exit(p)
    /\ UNCHANGED <<p, is_exitted, main_pc, query, ilock, reader_pc, sent>>
    /\ UNCHANGED <<fmt_vars, wl_vars, pg_vars>>

\* handle_event on Exit.
MainExit ==
    /\ Receive({"Exit"})
    /\ effects' = effects \o handle_exit(p)
    /\ is_exitted' = handle_event_is_exitted(Exit, is_exitted)
    /\ UNCHANGED <<p, main_pc, query, ilock, reader_pc, sent>>
    /\ UNCHANGED <<fmt_vars, wl_vars, pg_vars>>

\* handle_event on Search, up to event_thread_running.lock().
MainSearch ==
    /\ Receive({"Search"})
    /\ p' = search_begin(p, recv(chan).msg.ev.s)
    /\ main_pc' = "lock"
    /\ UNCHANGED <<is_exitted, effects, query, ilock, reader_pc, sent>>
    /\ UNCHANGED <<fmt_vars, wl_vars, pg_vars>>

\* A Search arm that goes on to the prompt without the lock.
SearchLockMissing ==
    /\ main_pc = "lock"
    /\ main_pc' = "fetch"
    /\ UNCHANGED <<p, is_exitted, effects, chan, query, ilock, reader_pc,
                   sent, taken, registered, last_es>>
    /\ UNCHANGED <<fmt_vars, wl_vars, pg_vars>>

\* let ilock = event_thread_running.lock().unwrap()
SearchLock ==
    /\ main_pc = "lock"
    /\ ilock = "free"
    /\ ilock' = "main"
    /\ main_pc' = "fetch"
    /\ UNCHANGED <<p, is_exitted, effects, chan, query, reader_pc,
                   sent, taken, registered, last_es>>
    /\ UNCHANGED <<fmt_vars, wl_vars, pg_vars>>

\* fetch_input returns the query; drop(ilock).
SearchFetch ==
    /\ main_pc = "fetch"
    /\ \E q \in Queries : query' = q
    /\ ilock' = "free"
    /\ main_pc' = "searching"
    /\ UNCHANGED <<p, is_exitted, effects, chan, reader_pc,
                   sent, taken, registered, last_es>>
    /\ UNCHANGED <<fmt_vars, wl_vars, pg_vars>>

\* A failing fetch_input that leaves the lock taken.
SearchFetchErrorKeepsLock ==
    /\ main_pc = "fetch"
    /\ main_pc' = "failed"
    /\ UNCHANGED <<p, is_exitted, effects, chan, query, ilock, reader_pc,
                   sent, taken, registered, last_es>>
    /\ UNCHANGED <<fmt_vars, wl_vars, pg_vars>>

\* fetch_input fails: `?` leaves handle_event, which drops ilock on its way.
SearchFetchError ==
    /\ main_pc = "fetch"
    /\ ilock' = "free"
    /\ main_pc' = "failed"
    /\ UNCHANGED <<p, is_exitted, effects, chan, query, reader_pc,
                   sent, taken, registered, last_es>>
    /\ UNCHANGED <<fmt_vars, wl_vars, pg_vars>>

\* The rest of the Search arm.
SearchFinish ==
    /\ main_pc = "searching"
    /\ p' = search_finish(p, query)
    /\ query' = ""
    /\ main_pc' = "recv"
    /\ UNCHANGED <<is_exitted, effects, chan, ilock, reader_pc,
                   sent, taken, registered, last_es>>
    /\ UNCHANGED <<fmt_vars, wl_vars, pg_vars>>

\* The host and the input-reading task of SpecLive: fewer events, of the
\* kinds that matter to how the session ends.
LiveHostEvents == {AddExitCallback("cb1"), SetExitStrategy("PagerQuit")}

LiveReaderEvents == {Exit, Other, Search("Forward")}

LiveHostPublish ==
    /\ \E ev \in LiveHostEvents : PublishUpTo(MaxLiveEvents, "host", ev)
    /\ UNCHANGED <<p, is_exitted, effects, main_pc, query, ilock, reader_pc,
                   taken, registered, last_es>>
    /\ UNCHANGED <<fmt_vars, wl_vars, pg_vars>>

LiveReaderRead ==
    /\ reader_pc = "reading"
    /\ \E ev \in LiveReaderEvents : PublishUpTo(MaxLiveEvents, "reader", ev)
    /\ ilock' = "free"
    /\ reader_pc' = "idle"
    /\ UNCHANGED <<p, is_exitted, effects, main_pc, query,
                   taken, registered, last_es>>
    /\ UNCHANGED <<fmt_vars, wl_vars, pg_vars>>

\* The host and the input-reading task of SpecToggle: the host sets the
\* line-number mode, the input-reading task toggles the mode it sees.
Always == {"AlwaysOn", "AlwaysOff"}

ToggleHostEvents == {SetLineNumbers(ln) : ln \in Always \cup {"Enabled"}}

ToggleReaderEvents(ps) == {UpdateLineNumber(Not(ps.line_numbers)), Other}

ToggleHostPublish ==
    /\ \E ev \in ToggleHostEvents : Publish("host", ev)
    /\ UNCHANGED <<p, is_exitted, effects, main_pc, query, ilock, reader_pc,
                   taken, registered, last_es>>
    /\ UNCHANGED <<fmt_vars, wl_vars, pg_vars>>

ToggleReaderRead ==
    /\ reader_pc = "reading"
    /\ \E ev \in ToggleReaderEvents(p) : Publish("reader", ev)
    /\ ilock' = "free"
    /\ reader_pc' = "idle"
    /\ UNCHANGED <<p, is_exitted, effects, main_pc, query,
                   taken, registered, last_es>>
    /\ UNCHANGED <<fmt_vars, wl_vars, pg_vars>>

(***************************************************************************)
(* handle_event called on one event after the other, as its tests call it: *)
(* the event is sent and received at once, and the Search arm runs in one  *)
(* step, the lock being free and the prompt returning.                     *)
(***************************************************************************)
SearchModes == {"Forward", "Reverse"}

SeqTexts == {<<"a", NL, "b", NL, "a", NL, "a">>, <<"a", "b", "a">>, <<"b", NL, "a">>}

SeqHostEvents ==
    {SetData(t) : t \in SeqTexts} \cup {AppendData(t) : t \in SeqTexts}
    \cup {SetPrompt("p1"), SetPrompt("p2"), SendMessage("m1"),
          SetRunNoOverflow(TRUE), SetInputClassifier("CustomInputClassifier")}
    \cup {SetLineNumbers(ln) : ln \in LineNumbers}
    \cup {SetExitStrategy(es) : es \in ExitStrategies}
    \cup {AddExitCallback(cb) : cb \in Callbacks}

SeqReaderEvents(ps) ==
    {Exit, RestorePrompt, NextMatch, PrevMatch, Other,
     UpdateTermArea(1, 1), UpdateTermArea(3, 2),
     UpdateLineNumber(Not(ps.line_numbers)),
     Search("Forward"), Search("Reverse")}
    \cup {UpdateUpperMark(um) : um \in 0..MaxScroll}

\* One call of handle_event, on an event that is sent and received at once.
SeqCall(src, ev) ==
    /\ main_pc = "recv"
    /\ chan = <<>>
    /\ ~is_exitted
    /\ Total(sent) < MaxSeqEvents
    /\ sent' = [sent EXCEPT ![src] = sent[src] + 1]
    /\ Record(Msg(src, sent[src] + 1, Total(sent) + 1, ev))
    /\ UNCHANGED chan

\* handle_event on any event but Exit and Search.
SeqDispatch ==
    /\ \/ \E ev \in SeqHostEvents :
             SeqCall("host", ev) /\ Handle(ev)
       \/ \E ev \in SeqReaderEvents(p) \ {Exit, Search("Forward"), Search("Reverse")} :
             SeqCall("reader", ev) /\ Handle(ev)
    /\ UNCHANGED <<effects, query, ilock, reader_pc>>
    /\ UNCHANGED <<fmt_vars, wl_vars, pg_vars>>

\* handle_event on Exit.
SeqExit ==
    /\ SeqCall("reader", Exit)
    /\ effects' = effects \o handle_exit(p)
    /\ is_exitted' = handle_event_is_exitted(Exit, is_exitted)
    /\ UNCHANGED <<p, main_pc, query, ilock, reader_pc>>
    /\ UNCHANGED <<fmt_vars, wl_vars, pg_vars>>

\* handle_event on Search, from its first statement to its last.
SeqSearch ==
    /\ ilock = "free"
    /\ \E m \in SearchModes, q \in Queries :
          /\ SeqCall("reader", Search(m))
          /\ query' = q
          /\ p' = search_finish(search_begin(p, m), q)
    /\ UNCHANGED <<is_exitted, effects, main_pc, ilock, reader_pc>>
    /\ UNCHANGED <<fmt_vars, wl_vars, pg_vars>>

EvIdle ==
    /\ p = new_pager_state
    /\ is_exitted = FALSE
    /\ effects = <<>>
    /\ chan = <<>>
    /\ main_pc = "recv"
    /\ query = ""
    /\ ilock = "free"
    /\ reader_pc = "idle"
    /\ sent = [src \in Producers |-> 0]
    /\ taken = [src \in Producers |-> 0]
    /\ registered = <<>>
    /\ last_es = new_pager_state.exit_strategy

(***************************************************************************)
(* Specification SpecFormat: one call of split_at_width on any text of at  *)
(* most MaxTextLen bytes at any width 1..MaxCols.                          *)
(***************************************************************************)
FmtIdle ==
    /\ fmt_text = <<>>
    /\ fmt_cols = 1
    /\ fmt_pc = "idle"
    /\ fmt_lines = <<>>

InitFormat ==
    /\ fmt_text \in Strings(MaxTextLen)
    /\ fmt_cols \in 1..MaxCols
    /\ fmt_pc = "call"
    /\ fmt_lines = <<>>

FormatReturn ==
    /\ fmt_pc = "call"
    /\ ~split_at_width(fmt_text, fmt_cols).panic
    /\ fmt_lines' = split_at_width(fmt_text, fmt_cols).lines
    /\ fmt_pc' = "returned"
    /\ UNCHANGED <<fmt_text, fmt_cols, wl_vars, pg_vars, ev_vars>>

FormatPanic ==
    /\ fmt_pc = "call"
    /\ split_at_width(fmt_text, fmt_cols).panic
    /\ fmt_lines' = <<>>
    /\ fmt_pc' = "panicked"
    /\ UNCHANGED <<fmt_text, fmt_cols, wl_vars, pg_vars, ev_vars>>

vars == <<fmt_vars, wl_vars, pg_vars, ev_vars>>

NextFormat == FormatReturn \/ FormatPanic

FormatInit == InitFormat /\ WlIdle /\ PgIdle /\ EvIdle

SpecFormat == FormatInit /\ [][NextFormat]_vars

NextRender == WriteLines

RenderInit == InitRender /\ FmtIdle /\ PgIdle /\ EvIdle

SpecRender == RenderInit /\ [][NextRender]_vars

PagerInit == PgIdle /\ FmtIdle /\ WlIdle /\ EvIdle

SpecPager == PagerInit /\ [][NextPager]_vars

(***************************************************************************)
(* Specification Spec: the host, the input-reading task and the main loop  *)
(* around handle_event, MaxEvents messages in all.                         *)
(***************************************************************************)
Init == EvIdle /\ FmtIdle /\ WlIdle /\ PgIdle

Next ==
    \/ HostPublish
    \/ ReaderLock
    \/ ReaderRead
    \/ ReaderIdle
    \/ MainDispatch
    \/ MainExit
    \/ MainSearch
    \/ SearchLock
    \/ SearchFetch
    \/ SearchFetchError
    \/ SearchFinish

Spec == Init /\ [][Next]_vars

(***************************************************************************)
(* Specification SpecLive: Spec on MaxLiveEvents messages of fewer kinds,  *)
(* with a main loop that is scheduled fairly (it gets the lock it waits    *)
(* for, if the lock is free again and again), a search prompt that returns *)
(* a query, and an input-reading task whose read returns.                  *)
(***************************************************************************)
NextLive ==
    \/ LiveHostPublish
    \/ ReaderLock
    \/ LiveReaderRead
    \/ ReaderIdle
    \/ MainDispatch
    \/ MainExit
    \/ MainSearch
    \/ SearchLock
    \/ SearchFetch
    \/ SearchFinish

Fairness ==
    /\ WF_vars(MainDispatch)
    /\ WF_vars(MainExit)
    /\ WF_vars(MainSearch)
    /\ SF_vars(SearchLock)
    /\ WF_vars(SearchFetch)
    /\ WF_vars(SearchFinish)
    /\ WF_vars(LiveReaderRead \/ ReaderIdle)

SpecLive == Init /\ [][NextLive]_vars /\ Fairness

(***************************************************************************)
(* Specification SpecLock: SpecLive's tasks with a search prompt that      *)
(* returns a query or an I/O error, and an input-reading task that gets    *)
(* the lock it waits for, if the lock is free again and again.             *)
(***************************************************************************)
NextLock ==
    \/ LiveHostPublish
    \/ ReaderLock
    \/ LiveReaderRead
    \/ ReaderIdle
    \/ MainDispatch
    \/ MainExit
    \/ MainSearch
    \/ SearchLock
    \/ SearchFetch
    \/ SearchFetchError
    \/ SearchFinish

FairLock ==
    /\ WF_vars(SearchFetch \/ SearchFetchError)
    /\ SF_vars(ReaderLock)

SpecLock == Init /\ [][NextLock]_vars /\ FairLock

(***************************************************************************)
(* Specification SpecToggle: the host sets the line-number mode while the  *)
(* input-reading task toggles it, MaxEvents messages in all.               *)
(***************************************************************************)
NextToggle ==
    \/ ToggleHostPublish
    \/ ReaderLock
    \/ ToggleReaderRead
    \/ ReaderIdle
    \/ MainDispatch

SpecToggle == Init /\ [][NextToggle]_vars

(***************************************************************************)
(* Specification SpecSeq: MaxSeqEvents calls of handle_event, one after    *)
(* the other.                                                              *)
(***************************************************************************)
NextSeq ==
    \/ SeqDispatch
    \/ SeqExit
    \/ SeqSearch

SpecSeq == Init /\ [][NextSeq]_vars

(***************************************************************************)
(* Claims about the formatter (checked under SpecFormat)                   *)
(***************************************************************************)
CeilDiv(a, b) == (a + b - 1) \div b

Max(a, b) == IF a >= b THEN a ELSE b

Min(a, b) == IF a <= b THEN a ELSE b

RECURSIVE SumCeil(_, _)
SumCeil(ls, cols) ==
    IF ls = <<>> THEN 0
    ELSE CeilDiv(Max(1, Len(Head(ls))), cols) + SumCeil(Tail(ls), cols)

\* C4: for every text and every cols > 0 the formatter returns exactly
\* sum(ceil(max(1, len(line)) / cols)) display lines over the logical lines
\* of the text; a logical line whose length is an exact multiple of cols
\* gives len / cols display lines.
C4_DisplayLineCount ==
    fmt_pc = "returned" =>
        Len(fmt_lines) = SumCeil(lines_of(fmt_text), fmt_cols)

\* The display lines of every logical line of a text, line by line.
Groups(text, cols) ==
    [i \in 1..Len(lines_of(text)) |-> split_line_at_width(lines_of(text)[i], cols)]

GroupReconstructs(line, cols, g) ==
    /\ Concat(g) = line
    /\ \A j \in 1..(Len(g) - 1) : Len(g[j]) = cols

\* C5: for every logical line and every cols > 0 the formatter produces
\* display lines for it, their concatenation in order is the logical line,
\* and each of them but the last holds exactly cols units.
C5_Reconstructs ==
    fmt_pc # "call" =>
        /\ fmt_pc = "returned"
        /\ \A i \in 1..Len(lines_of(fmt_text)) :
              /\ ~Groups(fmt_text, fmt_cols)[i].panic
              /\ GroupReconstructs(lines_of(fmt_text)[i], fmt_cols,
                                   Groups(fmt_text, fmt_cols)[i].lines)
        /\ fmt_lines = Concat([i \in 1..Len(lines_of(fmt_text)) |->
                                  Groups(fmt_text, fmt_cols)[i].lines])

\* What does hold of split_at_width: whenever it returns, the display lines
\* of each logical line reconstruct it and all but the last hold cols bytes.
ReconstructsWhenReturned ==
    fmt_pc = "returned" =>
        /\ \A i \in 1..Len(lines_of(fmt_text)) :
              /\ ~Groups(fmt_text, fmt_cols)[i].panic
              /\ GroupReconstructs(lines_of(fmt_text)[i], fmt_cols,
                                   Groups(fmt_text, fmt_cols)[i].lines)
        /\ fmt_lines = Concat([i \in 1..Len(lines_of(fmt_text)) |->
                                  Groups(fmt_text, fmt_cols)[i].lines])

\* What does hold of the count: every logical line gives len / cols + 1
\* display lines, one more than the ceiling when cols divides len > 0.
RECURSIVE SumBreaks(_, _)
SumBreaks(ls, cols) ==
    IF ls = <<>> THEN 0
    ELSE (Len(Head(ls)) \div cols) + 1 + SumBreaks(Tail(ls), cols)

CountIsBreaks ==
    fmt_pc = "returned" =>
        Len(fmt_lines) = SumBreaks(lines_of(fmt_text), fmt_cols)

(***************************************************************************)
(* Claims about write_lines (checked under SpecRender)                     *)
(***************************************************************************)
\* C1: write_lines leaves upper_mark at 0 when the text has no more lines
\* than rows and at min(requested, n - rows) otherwise, so that after a
\* render upper_mark <= max(0, n - rows).
C1_ClampedUpperMark ==
    wl_pc = "done" =>
        /\ wl_n <= wl_rows => wl_um = 0
        /\ wl_n > wl_rows => wl_um = Min(wl_req, wl_n - wl_rows)
        /\ wl_um <= Max(0, wl_n - wl_rows)

C1_Witness ==
    /\ wl_pc = "done"
    /\ wl_n > wl_rows
    /\ wl_req > wl_n - wl_rows
    /\ wl_um = wl_n - wl_rows

\* C2: write_lines writes exactly min(rows, n - upper_mark) lines (upper_mark
\* as clamped), consecutive from line upper_mark, each as "\r", the optional
\* number prefix, the content and "\n"; with n >= rows exactly rows lines are
\* written and none lies past line n - 1.
C2_DrawnLines ==
    wl_pc = "done" =>
        /\ Len(wl_out) = Min(wl_rows, wl_n - wl_um)
        /\ \A k \in 1..Len(wl_out) :
              /\ wl_out[k].line = wl_um + k - 1
              /\ wl_out[k].line <= wl_n - 1
              /\ wl_out[k].cr /\ wl_out[k].nl
              /\ (wl_out[k].number # 0) <=> numbered(wl_ln)
        /\ wl_n >= wl_rows => Len(wl_out) = wl_rows

(***************************************************************************)
(* Claims about the Pager (checked under SpecPager)                        *)
(***************************************************************************)
FormatOfRaw ==
    /\ ~split_at_width(pg_raw, pager.cols).panic
    /\ pager.lines = split_at_width(pg_raw, pager.cols).lines

\* C3: after any sequence of data-replace and data-append calls on the
\* running pager, the display lines are the formatter applied, at the current
\* width, to the text last set followed by every text appended since; so
\* appending two fragments gives what appending their concatenation gives.
C3_LinesAreFormatOfRaw ==
    (pager.running /\ ~pg_panicked /\ "resize" \notin pg_hist) => FormatOfRaw

\* C6: after a resize to (c, r) the display lines are the formatter applied
\* to the raw text at width c, whatever the earlier widths were.
C6_ResizeIsFormatOfRaw ==
    (pg_last = "resize" /\ ~pg_panicked /\ "push_str" \notin pg_hist) => FormatOfRaw

\* C7: while the pager runs its state is written only by the pager's own
\* (main) task; a host producer never changes a field itself.
C7_OnlyMainWrites ==
    [][(pager.running /\ pager' # pager) => pg_mutex = "main"]_vars

\* The messages of ch that are no longer in ch2.
Gone(ch, ch2) ==
    {i \in 1..Len(ch) : \A j \in 1..Len(ch2) : ch2[j] # ch[i]}

\* C8: the main loop's read of a search query and the input-reading task's
\* read of the terminal never run at the same time: the main loop holds the
\* lock all the while it reads the query, and the input-reading task reads
\* only while it holds the same lock.
C8_PromptExcludesReader ==
    /\ ~(main_pc = "fetch" /\ reader_pc = "reading")
    /\ main_pc = "fetch" => ilock = "main"
    /\ reader_pc = "reading" => ilock = "reader"

\* The main loop is at the search prompt, on a Search the input-reading task
\* published, and the input-reading task is kept waiting for the lock.
C8_Witness ==
    /\ main_pc = "fetch"
    /\ ilock = "main"
    /\ reader_pc = "idle"
    /\ taken["reader"] >= 1

\* C9: whenever the main loop takes a message, it is the oldest arrival not
\* yet dispatched, and so the next of its producer's messages: a producer's
\* events are dispatched in the order it published them, and events of
\* different producers in the order they arrived.
C9_DispatchOrder ==
    [][taken' # taken =>
         \E i \in Gone(chan, chan') :
            /\ Gone(chan, chan') = {i}
            /\ chan[i].t = Total(taken) + 1
            /\ chan[i].n = taken[chan[i].src] + 1
            /\ taken' = [taken EXCEPT ![chan[i].src] = chan[i].n]]_vars

\* Messages of both producers have been dispatched, and messages of both wait.
C9_Witness ==
    /\ taken["host"] >= 1
    /\ taken["reader"] >= 1
    /\ Len(chan) >= 2
    /\ chan[1].src # chan[2].src

\* C10: once the session has ended, what the exit path did is: the callbacks
\* of the AddExitCallback events dispatched before, each once and in the order
\* of their registration, then the flag, then the cleanup with the strategy of
\* the last SetExitStrategy dispatched; and before that it did nothing.
C10_ExitSequence ==
    IF is_exitted
    THEN effects = [i \in 1..Len(registered) |-> Effect("callback", registered[i])]
                   \o <<Effect("is_exitted", "true"), Effect("cleanup", last_es)>>
    ELSE effects = <<>>

\* Exit dispatched after two different callbacks and a SetExitStrategy.
C10_Witness ==
    /\ is_exitted
    /\ Len(registered) = 2
    /\ registered[1] # registered[2]
    /\ last_es = "PagerQuit"
    /\ Len(effects) = 4

\* A quit event waits in the channel.
QuitPublished == \E i \in 1..Len(chan) : chan[i].ev = Exit

Dispatching(type) ==
    /\ main_pc = "recv"
    /\ ~is_exitted
    /\ chan # <<>>
    /\ chan[1].ev.type = type

\* C12: with the line-number mode at AlwaysOn or AlwaysOff, dispatching an
\* UpdateLineNumber event leaves the mode as it is.
C12_AlwaysSticky ==
    [][(p.line_numbers \in Always /\ Dispatching("UpdateLineNumber") /\ taken' # taken)
        => p'.line_numbers = p.line_numbers]_vars

(***************************************************************************)
(* Claims about handle_event (checked under SpecSeq): each is stated of    *)
(* the call of handle_event on the PagerState p of every reachable state.  *)
(***************************************************************************)
\* handle_event(Search(m)) when fetch_input returns q.
Searched(ps, m, q) == search_finish(search_begin(ps, m), q)

C14_FailedSearch ==
    \A m \in SearchModes :
        LET q == Searched(p, m, "(")
        IN  /\ q.message = InvalidRegexMessage
            /\ q.formatted_lines = p.formatted_lines
            /\ q.search_term = None
            /\ ~handle_event_panics(NextMatch, q) /\ handle_event(NextMatch, q) = q
            /\ ~handle_event_panics(PrevMatch, q) /\ handle_event(PrevMatch, q) = q

\* The search fields, the display lines and upper_mark, but for the mode.
SearchFrame(q, ps) ==
    /\ q.search_term = ps.search_term
    /\ q.search_idx = ps.search_idx
    /\ q.search_mark = ps.search_mark
    /\ q.formatted_lines = ps.formatted_lines
    /\ q.upper_mark = ps.upper_mark

\* C15 as stated: a Search whose query is empty leaves the pattern, the mode,
\* the match index, the cursor, the display lines and upper_mark as they were.
C15_EmptyQuery ==
    \A m \in SearchModes :
        LET q == Searched(p, m, "")
        IN  SearchFrame(q, p) /\ q.search_mode = p.search_mode

\* C15 as amended: a Search whose query is empty leaves the pattern, the match
\* index, the cursor, the display lines and upper_mark as they were; the mode
\* is the direction of the event.
C15_EmptyQueryKeepsAllButMode ==
    \A m \in SearchModes :
        LET q == Searched(p, m, "")
        IN  SearchFrame(q, p) /\ q.search_mode = m

\* An empty query was given in reverse, with a pattern and matches present.
C15_Witness ==
    /\ query = ""
    /\ p.search_mode = "Reverse"
    /\ p.search_term = "a"
    /\ Len(p.search_idx) >= 2

\* The positions in idx of the matches at or after um.
AtOrAfter(idx, um) == {k \in 1..Len(idx) : idx[k] >= um}

C17_MatchIndexOrdered ==
    /\ \A i, j \in 1..Len(p.search_idx) : i < j => p.search_idx[i] < p.search_idx[j]
    /\ \A i \in 1..Len(p.search_idx) : p.search_idx[i] < Len(p.formatted_lines)

\* Several matches, over lines wrapped again after the search.
C17_Witness ==
    /\ Len(p.search_idx) >= 2
    /\ p.cols = 1
    /\ p.search_idx[2] > p.search_idx[1] + 1

C19_PrevMatch ==
    p.search_term # None =>
        LET q == handle_event(PrevMatch, p)
            mark == sat_sub(p.search_mark, 1)
        IN  /\ ~handle_event_panics(PrevMatch, p)
            /\ p.search_idx = <<>> => q = p
            /\ p.search_idx # <<>> =>
                  /\ q.search_mark = mark
                  /\ q.upper_mark = IF p.search_idx[mark + 1] < p.upper_mark
                                    THEN p.search_idx[mark + 1] ELSE p.upper_mark
            /\ q.upper_mark <= p.upper_mark

\* The fields of q other than own and the prompt bar derived from them are
\* those of ps.
OnlyChanges(own, q, ps) ==
    \A f \in DOMAIN ps \ {own, "displayed_prompt"} : q[f] = ps[f]

\* C20: SetPrompt, SendMessage, SetExitStrategy, SetRunNoOverflow,
\* SetInputClassifier and AddExitCallback each change their own field only
\* (AddExitCallback appends one entry at the end), and so leave the raw text,
\* the display lines, upper_mark, rows, cols, the line-number mode and the
\* search fields as they were.
C20_ConfigFrame ==
    /\ \A t \in {"p1", "p2"} :
          LET q == handle_event(SetPrompt(t), p)
          IN  q.prompt = t /\ OnlyChanges("prompt", q, p)
    /\ \A m \in {"m1", "m2"} :
          LET q == handle_event(SendMessage(m), p)
          IN  q.message = m /\ OnlyChanges("message", q, p)
    /\ \A es \in ExitStrategies :
          LET q == handle_event(SetExitStrategy(es), p)
          IN  q.exit_strategy = es /\ OnlyChanges("exit_strategy", q, p)
    /\ \A v \in BOOLEAN :
          LET q == handle_event(SetRunNoOverflow(v), p)
          IN  q.run_no_overflow = v /\ OnlyChanges("run_no_overflow", q, p)
    /\ LET q == handle_event(SetInputClassifier("CustomInputClassifier"), p)
       IN  /\ q.input_classifier = "CustomInputClassifier"
           /\ OnlyChanges("input_classifier", q, p)
    /\ \A cb \in Callbacks :
          LET q == handle_event(AddExitCallback(cb), p)
          IN  /\ q.exit_callbacks = Append(p.exit_callbacks, cb)
              /\ OnlyChanges("exit_callbacks", q, p)

\* A second callback was added after a search had found matches in the text.
C20_Witness ==
    /\ Len(p.exit_callbacks) = 2
    /\ p.exit_callbacks[1] # p.exit_callbacks[2]
    /\ p.search_idx # <<>>
    /\ p.lines # <<>>

\* The input intents no arm takes before the catch-all: the opaque intent,
\* and NextMatch and PrevMatch while no pattern is present.
Unmatched(ps) ==
    {Other} \cup (IF ps.search_term = None THEN {NextMatch, PrevMatch} ELSE {})

\* The events that ask for something the state does not hold already.
Asking(ps) ==
    {SetData(t) : t \in SeqTexts \ {ps.lines}}
    \cup {AppendData(t) : t \in SeqTexts}
    \cup {SetPrompt(t) : t \in {"p1", "p2"} \ {ps.prompt}}
    \cup {SendMessage(m) : m \in {"m1", "m2"} \ {ps.message}}
    \cup {SetLineNumbers(ln) : ln \in LineNumbers \ {ps.line_numbers}}
    \cup {UpdateLineNumber(ln) : ln \in LineNumbers \ {ps.line_numbers}}
    \cup {SetExitStrategy(es) : es \in ExitStrategies \ {ps.exit_strategy}}
    \cup {SetRunNoOverflow(v) : v \in BOOLEAN \ {ps.run_no_overflow}}
    \cup {SetInputClassifier(clf) :
             clf \in {"DefaultInputClassifier", "CustomInputClassifier"} \ {ps.input_classifier}}
    \cup {AddExitCallback(cb) : cb \in Callbacks}
    \cup {UpdateUpperMark(um) : um \in (0..MaxScroll) \ {ps.upper_mark}}
    \cup {UpdateTermArea(c, r) : c \in (1..MaxCols) \ {ps.cols}, r \in 1..MaxRows}
    \cup {UpdateTermArea(c, r) : c \in 1..MaxCols, r \in (1..MaxRows) \ {ps.rows}}
    \cup (IF ps.message # None THEN {RestorePrompt} ELSE {})
    \cup {Exit}

\* C21: an input intent that no arm takes (the opaque intent, NextMatch and
\* PrevMatch while no pattern is present) leaves the pager state and the
\* ended flag as they were and handle_event returns; no other event is
\* ignored: an event that asks for something the state does not hold, and a
\* Search in another direction, changes the state or the flag.
C21_UnmatchedIgnored ==
    ~is_exitted =>
        /\ \A ev \in Unmatched(p) :
              /\ ~handle_event_panics(ev, p)
              /\ handle_event(ev, p) = p
              /\ handle_event_is_exitted(ev, is_exitted) = is_exitted
        /\ \A ev \in Asking(p) :
              /\ ~handle_event_panics(ev, p)
              /\ \/ handle_event(ev, p) # p
                 \/ handle_event_is_exitted(ev, is_exitted) # is_exitted
        /\ \A m \in SearchModes \ {p.search_mode}, q \in Queries : Searched(p, m, q) # p

\* No pattern is present, intents of the input-reading task were dispatched,
\* and the view is scrolled down a text with a message in the bar.
C21_Witness ==
    /\ ~is_exitted
    /\ p.search_term = None
    /\ taken["reader"] >= 2
    /\ p.upper_mark > 0
    /\ p.message # None
    /\ p.formatted_lines # <<>>

\* The toggle the input-reading task sends for the mode it reads, dispatched.
Toggled(ps) == handle_event(UpdateLineNumber(Not(ps.line_numbers)), ps)

\* C22: the negation of the line-number mode takes Enabled to Disabled and
\* Disabled to Enabled and leaves AlwaysOn and AlwaysOff as they are; negating
\* twice gives the mode back, and so does toggling twice.
C22_Negation ==
    /\ p.line_numbers \in LineNumbers
    /\ p.line_numbers = "Enabled" => Not(p.line_numbers) = "Disabled"
    /\ p.line_numbers = "Disabled" => Not(p.line_numbers) = "Enabled"
    /\ p.line_numbers = "AlwaysOn" => Not(p.line_numbers) = "AlwaysOn"
    /\ p.line_numbers = "AlwaysOff" => Not(p.line_numbers) = "AlwaysOff"
    /\ Not(Not(p.line_numbers)) = p.line_numbers
    /\ Toggled(p).line_numbers = Not(p.line_numbers)
    /\ Toggled(Toggled(p)).line_numbers = p.line_numbers

\* The mode is Enabled by a toggle alone: the host has sent nothing.
C22_Witness ==
    /\ p.line_numbers = "Enabled"
    /\ taken["host"] = 0
    /\ taken["reader"] >= 1

(***************************************************************************)
(* More claims about write_lines (checked under SpecRender)                *)
(***************************************************************************)
\* The number of decimal digits of n >= 1.
DecimalDigits(n) == CHOOSE d \in 1..4 : 10^(d - 1) <= n /\ n < 10^d

\* C23: with line numbers Enabled or AlwaysOn every line written, of absolute
\* 0-based index i, carries the number i + 1 in exactly digits(n) characters,
\* n being the number of lines of the whole text, followed by ". "; with
\* Disabled or AlwaysOff no line carries a prefix.
C23_LineNumberPrefix ==
    wl_pc = "done" =>
        \A k \in 1..Len(wl_out) :
            IF wl_ln \in {"Enabled", "AlwaysOn"}
            THEN /\ wl_out[k].number = wl_out[k].line + 1
                 /\ wl_out[k].width = DecimalDigits(wl_n)
            ELSE /\ wl_out[k].number = 0
                 /\ wl_out[k].width = 0

\* Line 95 of 110 was written as " 96. ": two digits in three characters.
C23_Witness ==
    /\ wl_pc = "done"
    /\ wl_n = 110
    /\ wl_ln = "AlwaysOn"
    /\ wl_out # <<>>
    /\ wl_out[1].line = 95
    /\ wl_out[1].number = 96
    /\ wl_out[1].width = 3

\* C24: rendering a second time, with the upper_mark the first render left
\* and the same text, rows and mode, leaves upper_mark as it is and writes
\* what the first render wrote.
C24_RenderTwice ==
    wl_pc = "done" =>
        LET again == write_lines(wl_n, wl_rows, wl_um, wl_ln)
        IN  /\ again.upper_mark = wl_um
            /\ again.out = wl_out

\* The first render moved upper_mark back onto the last screenful.
C24_Witness ==
    /\ wl_pc = "done"
    /\ wl_n > wl_rows
    /\ wl_req > wl_um
    /\ wl_um = wl_n - wl_rows
    /\ Len(wl_out) = wl_rows
    /\ wl_rows > 0

(***************************************************************************)
(* More claims about the formatter (checked under SpecFormat)              *)
(***************************************************************************)
\* The text holds a character of more than one byte.
MultiByte(s) == \E i \in 1..Len(s) : s[i] = LeadByte

\* C25: on every text that holds a character of more than one byte, at every
\* cols > 0, the formatter returns, and no display line ends inside a
\* character: every display line is itself a string.
C25_MultiByteSafe ==
    (fmt_pc # "call" /\ MultiByte(fmt_text)) =>
        /\ fmt_pc = "returned"
        /\ \A i \in 1..Len(fmt_lines) : ValidUtf8(fmt_lines[i])

\* What does hold: when the formatter returns, no display line ends inside a
\* character; a cut inside a character is a panic, never a broken line.
MultiByteSafeWhenReturned ==
    fmt_pc = "returned" => \A i \in 1..Len(fmt_lines) : ValidUtf8(fmt_lines[i])

(***************************************************************************)
(* More claims about handle_event (checked under SpecSeq)                  *)
(***************************************************************************)
\* The events that recompute the display lines.
Reformatting(ps) ==
    {SetData(t) : t \in SeqTexts} \cup {AppendData(t) : t \in SeqTexts}
    \cup {UpdateTermArea(c, r) : c \in 1..MaxCols, r \in 1..MaxRows}
    \cup {SetLineNumbers(ln) : ln \in LineNumbers}
    \cup {UpdateLineNumber(ln) : ln \in LineNumbers}

\* The match index of ps lists, once each, the 0-based indices of the display
\* lines of ps that match its pattern, and nothing else.
IndexIsCurrent(ps) ==
    /\ {ps.search_idx[k] : k \in 1..Len(ps.search_idx)}
          = {i \in 0..(Len(ps.formatted_lines) - 1) :
                is_match(ps.search_term, ps.formatted_lines[i + 1])}
    /\ \A j, k \in 1..Len(ps.search_idx) : j # k => ps.search_idx[j] # ps.search_idx[k]

\* C26: while a pattern is present, after every event that recomputes the
\* display lines (SetData, AppendData, UpdateTermArea, a change of the
\* line-number mode) the match index is exactly the indices of the current
\* display lines that match the pattern.
C26_IndexFollowsLines ==
    p.search_term # None =>
        /\ IndexIsCurrent(p)
        /\ \A ev \in Reformatting(p) :
              LET q == handle_event(ev, p)
              IN  /\ q.search_term = p.search_term
                  /\ q.formatted_lines = split_at_width(q.lines, q.cols).lines
                  /\ IndexIsCurrent(q)

\* The text was replaced after the search: the matches are fewer than the
\* cursor the search left, and the index is that of the new lines.
C26_Witness ==
    /\ p.search_term # None
    /\ p.search_idx # <<>>
    /\ p.search_mark > Len(p.search_idx)
    /\ IndexIsCurrent(p)

\* C27: in every reachable state in which PrevMatch looks up the match under
\* the cursor (a pattern is present and the match index is not empty), the
\* decremented cursor is a position of the match index, so the lookup does
\* not fail; also after the match index has shrunk.
C27_PrevMatchLookup ==
    (p.search_term # None /\ p.search_idx # <<>>) =>
        /\ sat_sub(p.search_mark, 1) < Len(p.search_idx)
        /\ ~handle_event_panics(PrevMatch, p)

\* What does hold: the cursor is out of range only after the match index has
\* been rebuilt shorter under it; a search alone leaves the decremented
\* cursor in range.
CursorInRangeAfterSearch ==
    \A m \in SearchModes, pat \in Patterns :
        LET q == Searched(p, m, pat)
        IN  (q.search_idx # <<>> /\ p.search_mark = 0) =>
                sat_sub(q.search_mark, 1) < Len(q.search_idx)

(***************************************************************************)
(* Claims about the search-prompt lock (checked under SpecLock)            *)
(***************************************************************************)
\* The input-reading task waits for the lock the main loop holds.
ReaderWaits == reader_pc = "idle" /\ ilock = "main"

\* C28: the main loop holds the search-prompt lock only while it reads the
\* query: not while it compiles the pattern, reformats and jumps, not once
\* the Search arm has returned, and not after the prompt read failed; so an
\* input-reading task that waits for the lock gets it (unless the process
\* has ended by then).
C28_LockReleased ==
    /\ [](ilock = "main" => main_pc = "fetch")
    /\ ReaderWaits ~> (reader_pc = "reading" \/ ProcessExited)

\* The prompt read failed, and the input-reading task has the lock.
C28_Witness ==
    /\ main_pc = "failed"
    /\ ilock = "reader"
    /\ reader_pc = "reading"

(***************************************************************************)
(* More claims about the Pager (checked under SpecPager)                   *)
(***************************************************************************)
\* The Pager had the same calls all made before it ran: they are buffered in
\* unwraped_text, which then holds pg_raw, for prepare to wrap.
MadeBefore == [new_pager EXCEPT !.unwraped_text = pg_raw]

\* Every set_text and push_str so far was made after the pager began to run,
\* and the column count is that of prepare.
AllMadeAfter ==
    /\ pager.running
    /\ pager.unwraped_text = <<>>
    /\ "resize" \notin pg_hist

\* C29: for the same set_text and push_str calls, the pager holds the same
\* wrapped lines whether all of them were made before it ran (buffered, then
\* wrapped by prepare) or all after it began to run at the same column count.
C29_BeforeOrAfter ==
    (AllMadeAfter /\ ~pg_panicked) =>
        /\ ~prepare_panics(MadeBefore, pager.cols, pager.rows)
        /\ pager.lines
              = prepare(MadeBefore, pager.cols, pager.rows).lines

\* What does hold: until the pager runs, the buffer is the text last set
\* followed by every text pushed since, and nothing is wrapped.
BufferedUntilRunning ==
    ~pager.running => (pager.unwraped_text = pg_raw /\ pager.lines = <<>>)

\* What does hold: set_text alone gives the same lines either way.
SetTextBeforeOrAfter ==
    (AllMadeAfter /\ ~pg_panicked /\ pg_last = "set_text") =>
        pager.lines
            = prepare(MadeBefore, pager.cols, pager.rows).lines

====
